---- MODULE Spec2Model ----
(***************************************************************************)
(* Model of static/js/scripts.js of Pashto-Proverb-of-the-Day: the page    *)
(* script that loads proverbs.json, shows the proverb of the day, and      *)
(* reacts to the new-proverb, copy and share buttons.                      *)
(*                                                                         *)
(* Two specifications share the module:                                    *)
(*   Spec       the page session (load chain, click handlers, clipboard,   *)
(*              share and timer callbacks);                                *)
(*   SpecDaily  the daily selection applied to two date-times, for the     *)
(*              claims about the pure index computation.                   *)
(***************************************************************************)
EXTENDS Integers, Sequences, FiniteSets, TLC

VARIABLES
    \* ---- page session (scripts.js:9-10 and the DOM nodes of 2-7) ----
    fetchState,      \* "pending" | "loaded" | "failed": the fetch chain of 13-23
    proverbs,        \* let proverbs (line 9)
    currentProverb,  \* let currentProverb (line 10)
    proverbText,     \* proverbTextEl.textContent
    translationText, \* translationEl.textContent
    meaningText,     \* meaningEl.textContent
    copyLabel,       \* copyBtn.innerHTML
    pendingWrites,   \* navigator.clipboard.writeText promises not yet settled
    clipboard,       \* the host clipboard's content
    timers,          \* pending setTimeout callbacks (their captured originalText)
    pendingShares,   \* navigator.share promises not yet settled
    hasClipboard,    \* host: navigator.clipboard is defined
    hasShare,        \* host: navigator.share is defined
    unhandled,       \* uncaught exceptions / unhandled rejections, by origin
    reported,        \* console.error and alert calls, by origin
    apiFailures,     \* history: host clipboard/share API failures, by origin
    loadedData,      \* history: the value the load assigned to proverbs
    lastSel,         \* history: which selection assigned currentProverb last
    lastEvent,       \* history: the handler that ran last
    \* ---- daily selection on two date-times (SpecDaily) ----
    dateA, dateB,    \* two Date values
    coll,            \* the collection both selections read
    pickA, pickB     \* the outcome of the daily selection on dateA / dateB

vars == <<fetchState, proverbs, currentProverb, proverbText, translationText,
          meaningText, copyLabel, pendingWrites, clipboard, timers,
          pendingShares, hasClipboard, hasShare, unhandled, reported,
          apiFailures, loadedData, lastSel, lastEvent,
          dateA, dateB, coll, pickA, pickB>>

sessionVars == <<fetchState, proverbs, currentProverb, proverbText,
                 translationText, meaningText, copyLabel, pendingWrites,
                 clipboard, timers, pendingShares, hasClipboard, hasShare,
                 unhandled, reported, apiFailures, loadedData, lastSel,
                 lastEvent>>

dailyVars == <<dateA, dateB, coll, pickA, pickB>>

(***************************************************************************)
(* Bounds.                                                                 *)
(***************************************************************************)
\* longest collection the daily-selection specification draws
MaxLen == 3
\* number of consecutive UTC days, from 2024-01-01, the dates are drawn from
NumDays == 430
\* longest collection a page session loads
MaxLoad == 2
\* most clipboard writes in flight at once
MaxPending == 2
\* most copy-confirmation timers pending at once
MaxTimers == 2
\* most share requests in flight at once
MaxShares == 1

(***************************************************************************)
(* JavaScript values.  A string is a sequence of tokens, so that a         *)
(* template literal is a concatenation.                                    *)
(***************************************************************************)
JSNull      == [kind |-> "null"]
JSUndefined == [kind |-> "undefined"]
JSObject    == [kind |-> "object"]          \* the JSON document {}
JSArray(s)  == [kind |-> "array", items |-> s]

Digit == <<"0", "1", "2", "3", "4", "5", "6", "7", "8", "9">>

\* The i-th record of proverbs.json (i from 1): three string fields.
Rec(i) == [kind        |-> "record",
           proverb     |-> <<"P", Digit[i + 1]>>,
           translation |-> <<"T", Digit[i + 1]>>,
           meaning     |-> <<"M", Digit[i + 1]>>]

\* A well-formed proverbs.json of n records.
Collection(n) == JSArray([i \in 1..n |-> Rec(i)])

\* !v
Falsy(v) == v.kind \in {"null", "undefined"}

(***************************************************************************)
(* Time values and the Date built-ins the script calls (ECMA-262, 21.4.1). *)
(* A time value t (milliseconds since the epoch, exact in a double) is     *)
(* held as   days = floor(t / msPerDay),  ms = t mod msPerDay   since t    *)
(* itself does not fit the checker's integers.  A Date also carries the    *)
(* host's local offset, which only the local getters read.                 *)
(***************************************************************************)
MsPerDay == 24 * 60 * 60 * 1000

Time(d, m) == [days |-> d, ms |-> m]

\* a - b on time values
TimeSub(a, b) ==
    IF a.ms >= b.ms THEN Time(a.days - b.days, a.ms - b.ms)
                    ELSE Time(a.days - b.days - 1, a.ms - b.ms + MsPerDay)

\* Math.floor(t / (24 * 60 * 60 * 1000))
FloorDays(t) == t.days

DaysInYear(y) ==
    IF y % 4 # 0 THEN 365
    ELSE IF y % 100 # 0 THEN 366
    ELSE IF y % 400 # 0 THEN 365 ELSE 366

DayFromYear(y) ==
    365 * (y - 1970) + ((y - 1969) \div 4) - ((y - 1901) \div 100)
        + ((y - 1601) \div 400)

\* the year y with DayFromYear(y) <= day < DayFromYear(y + 1), for day >= 0
YearFromDay(day) ==
    CHOOSE y \in (1970 + (day \div 366))..(1970 + (day \div 365)) :
        DayFromYear(y) <= day /\ day < DayFromYear(y + 1)

\* days of the year before month m (0 = January)
DaysBeforeMonth(m, leap) ==
    LET common == <<0, 31, 59, 90, 120, 151, 181, 212, 243, 273, 304, 334, 365>>
    IN  IF m <= 1 THEN common[m + 1] ELSE common[m + 1] + leap

MonthFromDay(day) ==
    LET y    == YearFromDay(day)
        leap == DaysInYear(y) - 365
        w    == day - DayFromYear(y)
    IN  CHOOSE m \in 0..11 :
            DaysBeforeMonth(m, leap) <= w /\ w < DaysBeforeMonth(m + 1, leap)

DateFromDay(day) ==
    LET y    == YearFromDay(day)
        leap == DaysInYear(y) - 365
        w    == day - DayFromYear(y)
    IN  w - DaysBeforeMonth(MonthFromDay(day), leap) + 1

\* Date.UTC(year, month, date)
DateUTC(year, month, date) ==
    Time(DayFromYear(year) + DaysBeforeMonth(month, DaysInYear(year) - 365)
             + date - 1, 0)

\* the day number of the local civil day of a Date (read by the local
\* getters only, which the script never calls)
LocalDay(date) ==
    IF date.ms + date.offset < 0 THEN date.days - 1
    ELSE IF date.ms + date.offset >= MsPerDay THEN date.days + 1
    ELSE date.days

getUTCFullYear(date) == YearFromDay(date.days)
getUTCMonth(date)    == MonthFromDay(date.days)
getUTCDate(date)     == DateFromDay(date.days)
getFullYear(date)    == YearFromDay(LocalDay(date))
getMonth(date)       == MonthFromDay(LocalDay(date))
getDate(date)        == DateFromDay(LocalDay(date))

\* Mutant: the local getters in place of the UTC ones.
getLocalOrdinalDay(date) ==
    LET start == DateUTC(getFullYear(date), 0, 1)
        today == DateUTC(getFullYear(date), getMonth(date), getDate(date))
        diff  == TimeSub(today, start)
    IN  FloorDays(diff)

\* Mutant: the day of the month in place of the day of the year.
getUTCDayOfMonth(date) == getUTCDate(date) - 1

\* Mutant: a one-based day of the year.
getUTCOrdinalDayOneBased(date) ==
    LET start == DateUTC(getUTCFullYear(date), 0, 1)
        today == DateUTC(getUTCFullYear(date), getUTCMonth(date), getUTCDate(date))
    IN  FloorDays(TimeSub(today, start)) + 1

\* function getUTCOrdinalDay(date)
getUTCOrdinalDay(date) ==
    LET start == DateUTC(getUTCFullYear(date), 0, 1)
        today == DateUTC(getUTCFullYear(date), getUTCMonth(date), getUTCDate(date))
        diff  == TimeSub(today, start)
    IN  FloorDays(diff)

(***************************************************************************)
(* The two selection functions.  Each is given as the outcome of running   *)
(* its body on a value p of the variable proverbs:                         *)
(*   threw     a TypeError left the function;                              *)
(*   assigned  the assignment to currentProverb was executed, with value;  *)
(*   shown     the three display nodes were updated from value.            *)
(* p is an array (loaded or initial), or what a malformed document leaves  *)
(* in the variable: null, or an object without a length.                   *)
(***************************************************************************)
NoSelection == [threw |-> FALSE, assigned |-> FALSE, value |-> JSUndefined,
                shown |-> FALSE]

\* lines 37-41 and 47-51: currentProverb = v; then read v.proverb, ...
AssignAndShow(v) ==
    [threw |-> Falsy(v), assigned |-> TRUE, value |-> v, shown |-> ~Falsy(v)]

\* idx of line 36, for a non-empty array p
dailyIndex(p, date) == getUTCOrdinalDay(date) % Len(p.items)

\* function displayDailyProverb(), with new Date() = date
displayDailyProverb(p, date) ==
    IF p.kind = "null" THEN [NoSelection EXCEPT !.threw = TRUE]
    ELSE IF p.kind # "array" THEN AssignAndShow(JSUndefined)
    ELSE IF Len(p.items) = 0 THEN NoSelection
    ELSE AssignAndShow(p.items[dailyIndex(p, date) + 1])

\* Math.random() is r / RandomGrain, for r in 0..RandomGrain-1
RandomGrain == 4

\* Math.floor(Math.random() * proverbs.length)
randomIndex(p, r) == (r * Len(p.items)) \div RandomGrain

\* Mutant: no empty-collection guard (proverbs[0] of [] is undefined).
displayRandomProverbNoGuard(p, r) ==
    IF p.kind = "null" THEN [NoSelection EXCEPT !.threw = TRUE]
    ELSE IF p.kind # "array" \/ Len(p.items) = 0 THEN AssignAndShow(JSUndefined)
    ELSE AssignAndShow(p.items[randomIndex(p, r) + 1])

\* function displayRandomProverb(), with Math.random() = r / RandomGrain
displayRandomProverb(p, r) ==
    IF p.kind = "null" THEN [NoSelection EXCEPT !.threw = TRUE]
    ELSE IF p.kind # "array" THEN AssignAndShow(JSUndefined)
    ELSE IF Len(p.items) = 0 THEN NoSelection
    ELSE AssignAndShow(p.items[randomIndex(p, r) + 1])

(***************************************************************************)
(* Texts.                                                                  *)
(***************************************************************************)
\* the page's markup before the script writes to it
InitialProverbText     == <<"#proverb-text .pashto">>
InitialTranslationText == <<"#proverb-text .translation">>
InitialMeaningText     == <<"#proverb-meaning">>
OriginalLabel          == <<"#copy-btn">>
\* the fixed message of line 22 and the confirmation of line 60
Diagnostic  == <<"load-failed message">>
CopiedLabel == <<"<i class=\"fas fa-check\"></i>", " ", "copied!">>

\* `"${r.translation}"`
Quoted(s) == <<"\"">> \o s \o <<"\"">>

\* Mutant: the meaning line left out.
textToCopyNoMeaning(r) ==
    r.proverb \o <<"\n", "\n", "Translation: ">> \o r.translation

\* const textToCopy (line 57)
textToCopy(r) ==
    r.proverb \o <<"\n", "\n", "Translation: ">> \o r.translation
        \o <<"\n", "Meaning: ">> \o r.meaning

\* const textToShare (line 70)
textToShare(r) ==
    <<"Pashto Proverb:", "\n">> \o r.proverb
        \o <<"\n", "\n", "Translation: ">> \o r.translation

\* s without its i-th element
RemoveAt(s, i) == SubSeq(s, 1, i - 1) \o SubSeq(s, i + 1, Len(s))

(***************************************************************************)
(* The page session.                                                       *)
(***************************************************************************)
\* what proverbs.json may parse to
LoadableData ==
    {Collection(n) : n \in 0..MaxLoad}
        \cup {JSObject, JSNull, JSArray(<<JSNull>>), JSArray(<<Rec(1), JSNull>>)}

\* the moments new Date() may return while the page loads: enough
\* consecutive days for the daily index to take every value
SessionDates ==
    {[days |-> DateUTC(2024, 0, 1).days + d, ms |-> m, offset |-> 0] :
        d \in 0..MaxLoad, m \in {0, MsPerDay - 1}}

SessionInit ==
    /\ fetchState = "pending"
    /\ proverbs = JSArray(<<>>)
    /\ currentProverb = JSNull
    /\ proverbText = InitialProverbText
    /\ translationText = InitialTranslationText
    /\ meaningText = InitialMeaningText
    /\ copyLabel = OriginalLabel
    /\ pendingWrites = <<>>
    /\ clipboard = <<>>
    /\ timers = <<>>
    /\ pendingShares = <<>>
    /\ hasClipboard \in BOOLEAN
    /\ hasShare \in BOOLEAN
    /\ unhandled = {}
    /\ reported = {}
    /\ apiFailures = {}
    /\ loadedData = JSUndefined
    /\ lastSel = "none"
    /\ lastEvent = "none"

\* the effect of a selection outcome on currentProverb and the display
ApplySelection(out, kind) ==
    /\ currentProverb' = IF out.assigned THEN out.value ELSE currentProverb
    /\ lastSel' = IF out.assigned THEN kind ELSE lastSel
    /\ translationText' =
           IF out.shown THEN Quoted(out.value.translation) ELSE translationText
    /\ meaningText' = IF out.shown THEN out.value.meaning ELSE meaningText

\* .then(data => { proverbs = data; displayDailyProverb(); }) and, when that
\* callback throws, the .catch of the same chain
LoadThen(data, date) ==
    LET out == displayDailyProverb(data, date) IN
    /\ fetchState = "pending"
    /\ proverbs' = data
    /\ loadedData' = data
    /\ ApplySelection(out, "daily")
    /\ proverbText' = IF out.threw THEN Diagnostic
                      ELSE IF out.shown THEN out.value.proverb
                      ELSE proverbText
    /\ reported' = IF out.threw THEN reported \cup {"load"} ELSE reported
    /\ fetchState' = IF out.threw THEN "failed" ELSE "loaded"
    /\ lastEvent' = "load"
    /\ UNCHANGED <<copyLabel, pendingWrites, clipboard, timers, pendingShares,
                   hasClipboard, hasShare, unhandled, apiFailures>>

\* fetch rejects, or response.json() rejects (missing or unparsable document)
LoadCatch ==
    /\ fetchState = "pending"
    /\ fetchState' = "failed"
    /\ reported' = reported \cup {"load"}
    /\ proverbText' = Diagnostic
    /\ lastEvent' = "loadFail"
    /\ UNCHANGED <<proverbs, currentProverb, translationText, meaningText,
                   copyLabel, pendingWrites, clipboard, timers, pendingShares,
                   hasClipboard, hasShare, unhandled, apiFailures, loadedData,
                   lastSel>>

\* Mutant: the picked record is taken out of the collection.
NewProverbClickSplice ==
    \E r \in 0..(RandomGrain - 1) :
        LET out == displayRandomProverb(proverbs, r) IN
        /\ ApplySelection(out, "random")
        /\ proverbText' = IF out.shown THEN out.value.proverb ELSE proverbText
        /\ unhandled' = IF out.threw THEN unhandled \cup {"newProverb"}
                        ELSE unhandled
        /\ proverbs' = IF out.shown
                       THEN JSArray(RemoveAt(proverbs.items,
                                             randomIndex(proverbs, r) + 1))
                       ELSE proverbs
        /\ lastEvent' = "newProverb"
        /\ UNCHANGED <<fetchState, copyLabel, pendingWrites, clipboard,
                       timers, pendingShares, hasClipboard, hasShare, reported,
                       apiFailures, loadedData>>

\* Mutant: the button toggles, a click in random mode re-running the daily
\* selection.
NewProverbClickToggle ==
    \E r \in 0..(RandomGrain - 1), date \in SessionDates :
        LET out == IF lastSel = "random"
                   THEN displayDailyProverb(proverbs, date)
                   ELSE displayRandomProverb(proverbs, r) IN
        /\ ApplySelection(out, IF lastSel = "random" THEN "daily" ELSE "random")
        /\ proverbText' = IF out.shown THEN out.value.proverb ELSE proverbText
        /\ unhandled' = IF out.threw THEN unhandled \cup {"newProverb"}
                        ELSE unhandled
        /\ lastEvent' = "newProverb"
        /\ UNCHANGED <<fetchState, proverbs, copyLabel, pendingWrites,
                       clipboard, timers, pendingShares, hasClipboard,
                       hasShare, reported, apiFailures, loadedData>>

\* newProverbBtn click: displayRandomProverb as an event listener
NewProverbClick ==
    \E r \in 0..(RandomGrain - 1) :
        LET out == displayRandomProverb(proverbs, r) IN
        /\ ApplySelection(out, "random")
        /\ proverbText' = IF out.shown THEN out.value.proverb ELSE proverbText
        /\ unhandled' = IF out.threw THEN unhandled \cup {"newProverb"}
                        ELSE unhandled
        /\ lastEvent' = "newProverb"
        /\ UNCHANGED <<fetchState, proverbs, copyLabel, pendingWrites,
                       clipboard, timers, pendingShares, hasClipboard,
                       hasShare, reported, apiFailures, loadedData>>

\* copyBtn click: copyProverb up to the writeText call
CopyClick ==
    /\ Falsy(currentProverb) \/ ~hasClipboard \/ Len(pendingWrites) < MaxPending
    /\ IF Falsy(currentProverb)
       THEN UNCHANGED <<pendingWrites, unhandled, apiFailures>>
       ELSE IF ~hasClipboard
       THEN /\ unhandled' = unhandled \cup {"copy:unavailable"}
            /\ apiFailures' = apiFailures \cup {"copy:unavailable"}
            /\ UNCHANGED pendingWrites
       ELSE /\ pendingWrites' = Append(pendingWrites, textToCopy(currentProverb))
            /\ UNCHANGED <<unhandled, apiFailures>>
    /\ lastEvent' = "copy"
    /\ UNCHANGED <<fetchState, proverbs, currentProverb, proverbText,
                   translationText, meaningText, copyLabel, clipboard, timers,
                   pendingShares, hasClipboard, hasShare, reported, loadedData,
                   lastSel>>

\* a writeText promise fulfils: the host has written the text, and the
\* .then callback of lines 58-64 runs
ClipboardResolve ==
    \E i \in DOMAIN pendingWrites :
        /\ Len(timers) < MaxTimers
        /\ clipboard' = pendingWrites[i]
        /\ pendingWrites' = RemoveAt(pendingWrites, i)
        /\ timers' = Append(timers, copyLabel)
        /\ copyLabel' = CopiedLabel
        /\ lastEvent' = "callback"
        /\ UNCHANGED <<fetchState, proverbs, currentProverb, proverbText,
                       translationText, meaningText, pendingShares,
                       hasClipboard, hasShare, unhandled, reported,
                       apiFailures, loadedData, lastSel>>

\* a writeText promise rejects: the chain of line 58 has no rejection handler
ClipboardReject ==
    \E i \in DOMAIN pendingWrites :
        /\ pendingWrites' = RemoveAt(pendingWrites, i)
        /\ unhandled' = unhandled \cup {"copy:rejected"}
        /\ apiFailures' = apiFailures \cup {"copy:rejected"}
        /\ lastEvent' = "callback"
        /\ UNCHANGED <<fetchState, proverbs, currentProverb, proverbText,
                       translationText, meaningText, copyLabel, clipboard,
                       timers, pendingShares, hasClipboard, hasShare, reported,
                       loadedData, lastSel>>

\* the setTimeout callback of lines 61-63; equal delays fire in order
TimerFire ==
    /\ timers # <<>>
    /\ copyLabel' = Head(timers)
    /\ timers' = Tail(timers)
    /\ lastEvent' = "callback"
    /\ UNCHANGED <<fetchState, proverbs, currentProverb, proverbText,
                   translationText, meaningText, pendingWrites, clipboard,
                   pendingShares, hasClipboard, hasShare, unhandled, reported,
                   apiFailures, loadedData, lastSel>>

\* shareBtn click: shareProverb up to the navigator.share call or the alert
ShareClick ==
    /\ Falsy(currentProverb) \/ ~hasShare \/ Len(pendingShares) < MaxShares
    /\ IF Falsy(currentProverb)
       THEN UNCHANGED <<pendingShares, reported, apiFailures>>
       ELSE IF hasShare
       THEN /\ pendingShares' =
                   Append(pendingShares, textToShare(currentProverb))
            /\ UNCHANGED <<reported, apiFailures>>
       ELSE /\ reported' = reported \cup {"share:unavailable"}
            /\ apiFailures' = apiFailures \cup {"share:unavailable"}
            /\ UNCHANGED pendingShares
    /\ lastEvent' = "share"
    /\ UNCHANGED <<fetchState, proverbs, currentProverb, proverbText,
                   translationText, meaningText, copyLabel, pendingWrites,
                   clipboard, timers, hasClipboard, hasShare, unhandled,
                   loadedData, lastSel>>

\* a navigator.share promise fulfils: nothing is chained on fulfilment
ShareResolve ==
    \E i \in DOMAIN pendingShares :
        /\ pendingShares' = RemoveAt(pendingShares, i)
        /\ lastEvent' = "callback"
        /\ UNCHANGED <<fetchState, proverbs, currentProverb, proverbText,
                       translationText, meaningText, copyLabel, pendingWrites,
                       clipboard, timers, hasClipboard, hasShare, unhandled,
                       reported, apiFailures, loadedData, lastSel>>

\* a navigator.share promise rejects: .catch(console.error)
ShareReject ==
    \E i \in DOMAIN pendingShares :
        /\ pendingShares' = RemoveAt(pendingShares, i)
        /\ reported' = reported \cup {"share:rejected"}
        /\ apiFailures' = apiFailures \cup {"share:rejected"}
        /\ lastEvent' = "callback"
        /\ UNCHANGED <<fetchState, proverbs, currentProverb, proverbText,
                       translationText, meaningText, copyLabel, pendingWrites,
                       clipboard, timers, hasClipboard, hasShare, unhandled,
                       loadedData, lastSel>>

(***************************************************************************)
(* The daily selection on two date-times.                                  *)
(***************************************************************************)
\* times of day and local offsets (UTC-12 .. UTC+14) the dates are drawn with
TimesOfDay   == {0, 12 * 60 * 60 * 1000, MsPerDay - 1}
LocalOffsets == {-12 * 60 * 60 * 1000, 14 * 60 * 60 * 1000}

FirstDay == DateUTC(2024, 0, 1).days

NotRun == [done |-> FALSE]

\* running displayDailyProverb on collection p at date: the outcome, and idx
RunDaily(p, date) ==
    [done |-> TRUE,
     out  |-> displayDailyProverb(p, date),
     idx  |-> IF Len(p.items) = 0 THEN -1 ELSE dailyIndex(p, date)]

DailyInit ==
    /\ coll \in {Collection(n) : n \in 0..MaxLen}
    /\ dateA \in [days : FirstDay..(FirstDay + NumDays - 1), ms : TimesOfDay,
                  offset : LocalOffsets]
    /\ dateB \in [days : {dateA.days, dateA.days + 1}, ms : TimesOfDay,
                  offset : LocalOffsets]
    /\ pickA = NotRun
    /\ pickB = NotRun

SelectA ==
    /\ ~pickA.done
    /\ pickA' = RunDaily(coll, dateA)
    /\ UNCHANGED <<dateA, dateB, coll, pickB>>

SelectB ==
    /\ pickA.done /\ ~pickB.done
    /\ pickB' = RunDaily(coll, dateB)
    /\ UNCHANGED <<dateA, dateB, coll, pickA>>

(***************************************************************************)
(* Specifications.                                                         *)
(***************************************************************************)
\* the daily-selection variables while a page session runs
DailyIdle ==
    /\ coll = Collection(0)
    /\ dateA = [days |-> FirstDay, ms |-> 0, offset |-> 0]
    /\ dateB = dateA
    /\ pickA = NotRun
    /\ pickB = NotRun

Init == SessionInit /\ DailyIdle

Next ==
    \/ \E data \in LoadableData, date \in SessionDates :
           LoadThen(data, date) /\ UNCHANGED dailyVars
    \/ LoadCatch /\ UNCHANGED dailyVars
    \/ NewProverbClick /\ UNCHANGED dailyVars
    \/ CopyClick /\ UNCHANGED dailyVars
    \/ ClipboardResolve /\ UNCHANGED dailyVars
    \/ ClipboardReject /\ UNCHANGED dailyVars
    \/ TimerFire /\ UNCHANGED dailyVars
    \/ ShareClick /\ UNCHANGED dailyVars
    \/ ShareResolve /\ UNCHANGED dailyVars
    \/ ShareReject /\ UNCHANGED dailyVars

Spec == Init /\ [][Next]_vars

\* the session variables while the daily selection is exercised
InitDaily == DailyInit /\ SessionInit /\ hasClipboard /\ hasShare

NextDaily ==
    \/ SelectA /\ UNCHANGED sessionVars
    \/ SelectB /\ UNCHANGED sessionVars

SpecDaily == InitDaily /\ [][NextDaily]_vars

\* every host callback and every user action keeps being taken while enabled
Fairness ==
    /\ WF_vars((\E data \in LoadableData, date \in SessionDates :
                    LoadThen(data, date)) /\ UNCHANGED dailyVars)
    /\ WF_vars(NewProverbClick /\ UNCHANGED dailyVars)
    /\ WF_vars(CopyClick /\ UNCHANGED dailyVars)
    /\ WF_vars(ClipboardResolve /\ UNCHANGED dailyVars)
    /\ WF_vars(TimerFire /\ UNCHANGED dailyVars)
    /\ WF_vars(ShareClick /\ UNCHANGED dailyVars)
    /\ WF_vars(ShareResolve /\ UNCHANGED dailyVars)

SpecFair == Init /\ [][Next]_vars /\ Fairness

(***************************************************************************)
(* Vocabulary of the properties.                                           *)
(***************************************************************************)
EmptyCollection == JSArray(<<>>)

IsLeapYear(y) == (y % 4 = 0 /\ y % 100 # 0) \/ y % 400 = 0

\* the day number of January 1 of year y >= 2024, counted up from
\* 2024-01-01T00:00:00Z = 1704067200 s = day 19723
RECURSIVE JanuaryFirst(_)
JanuaryFirst(y) ==
    IF y = 2024 THEN 19723
    ELSE JanuaryFirst(y - 1) + (IF IsLeapYear(y - 1) THEN 366 ELSE 365)

\* the UTC year of a day number >= 19723
CalendarYear(day) ==
    CHOOSE y \in 2024..(2024 + NumDays) :
        JanuaryFirst(y) <= day /\ day < JanuaryFirst(y + 1)

\* whole days from UTC midnight of January 1 to UTC midnight of the day
OrdinalDay(day) == day - JanuaryFirst(CalendarYear(day))

\* a text cut at its line breaks
RECURSIVE SplitLines(_, _)
SplitLines(text, line) ==
    IF text = <<>> THEN <<line>>
    ELSE IF Head(text) = "\n" THEN <<line>> \o SplitLines(Tail(text), <<>>)
    ELSE SplitLines(Tail(text), Append(line, Head(text)))

\* the session's selection mode
Mode ==
    IF lastSel # "none" THEN lastSel
    ELSE IF loadedData # JSUndefined THEN "loaded"
    ELSE "unloaded"

(***************************************************************************)
(* Properties.                                                             *)
(***************************************************************************)
\* C1 (SpecDaily): for a non-empty collection, two date-times on the same
\* UTC calendar day, whatever their times of day and the hosts' local
\* offsets, make the daily selection pick the same record.
C1_SameUTCDaySameRecord ==
    (pickA.done /\ pickB.done /\ Len(coll.items) > 0
        /\ dateA.days = dateB.days)
    => (pickA.out.assigned /\ pickA.out.value = pickB.out.value
        /\ pickA.out = pickB.out)

C1_Witness ==
    /\ pickA.done /\ pickB.done
    /\ Len(coll.items) = 3
    /\ dateA.days = dateB.days
    /\ dateA.ms = 0 /\ dateB.ms = MsPerDay - 1
    /\ dateA.offset < 0 /\ dateB.offset > 0
    /\ pickA.out.shown /\ pickB.out.value = pickA.out.value

\* the daily selection on date d picked the record at index
\* (ordinal day mod N) of the collection
PicksOrdinalModN(d, pick) ==
    LET N == Len(coll.items)
        k == OrdinalDay(d.days) % N
    IN  /\ pick.idx = k
        /\ pick.out.assigned /\ pick.out.shown
        /\ pick.out.value = coll.items[k + 1]
        /\ pick.out.value = Rec(k + 1)

\* C2 (SpecDaily): for a collection of length N >= 1 the daily selection is
\* the record at index (ordinal day mod N), the ordinal day being the whole
\* days from UTC midnight of January 1 of the date's UTC year to UTC
\* midnight of the date; with N = 3 the dates 2024-01-01, 2024-01-04 and
\* 2024-01-05 (days 19723, 19726, 19727) give indices 0, 0 and 1.
C2_IndexIsOrdinalModN ==
    /\ (pickA.done /\ Len(coll.items) > 0) => PicksOrdinalModN(dateA, pickA)
    /\ (pickB.done /\ Len(coll.items) > 0) => PicksOrdinalModN(dateB, pickB)
    /\ (pickA.done /\ Len(coll.items) = 3) =>
           /\ dateA.days = 19723 => pickA.idx = 0
           /\ dateA.days = 19726 => pickA.idx = 0
           /\ dateA.days = 19727 => pickA.idx = 1

C2_Witness ==
    /\ pickA.done /\ pickB.done
    /\ Len(coll.items) = 3
    /\ dateA.days = 19726 /\ pickA.idx = 0 /\ pickA.out.value = Rec(1)
    /\ dateB.days = 19727 /\ pickB.idx = 1 /\ pickB.out.value = Rec(2)

\* C3 (SpecDaily): for a collection of length N >= 1 and two consecutive
\* calendar days of the same UTC year, the second day's index is the first
\* day's index plus one, modulo N.
C3_ConsecutiveDaysStepByOne ==
    (pickA.done /\ pickB.done /\ Len(coll.items) >= 1
        /\ dateB.days = dateA.days + 1
        /\ CalendarYear(dateB.days) = CalendarYear(dateA.days))
    => pickB.idx = (pickA.idx + 1) % Len(coll.items)

\* 2024-02-29 followed by 2024-03-01, in a leap year
C3_Witness ==
    /\ pickA.done /\ pickB.done
    /\ Len(coll.items) = 3
    /\ dateA.days = 19723 + 59 /\ dateB.days = dateA.days + 1
    /\ OrdinalDay(dateA.days) = 59
    /\ pickA.idx = 2 /\ pickB.idx = 0

\* C4 (Spec): a new-proverb click while proverbs is the empty array, and
\* the daily selection of a load that delivers the empty array, leave the
\* current selection absent and the three display nodes unchanged, and
\* raise no fault.
C4_EmptyCollectionNoOp ==
    [][((lastEvent' = "newProverb" /\ proverbs = EmptyCollection)
            \/ (lastEvent' = "load" /\ proverbs' = EmptyCollection))
       => /\ UNCHANGED <<currentProverb, lastSel, proverbText,
                         translationText, meaningText, unhandled>>
          /\ Falsy(currentProverb')
          /\ fetchState' # "failed" \/ fetchState = "failed"]_vars

\* a click after an empty array was loaded
C4_Witness ==
    /\ lastEvent = "newProverb"
    /\ fetchState = "loaded"
    /\ proverbs = EmptyCollection
    /\ currentProverb = JSNull
    /\ proverbText = InitialProverbText
    /\ unhandled = {}

\* C5 (Spec): after any data-load failure the session holds an empty
\* collection and shows the fixed diagnostic message, and no later
\* new-proverb, copy or share action leaves an unhandled fault.
C5_FailedLoadLeavesEmptyCollection ==
    fetchState = "failed" =>
        /\ proverbs = EmptyCollection
        /\ proverbText = Diagnostic
        /\ unhandled = {}

\* C6 (Spec): every failure of the host clipboard API during copy and of the
\* host share API during share is reported and is never left unhandled.
C6_ApiFailuresReportedAndHandled ==
    \A f \in apiFailures : f \in reported /\ f \notin unhandled

\* C7 (Spec): a copy action with a current selection hands the clipboard
\* exactly the lines  proverb / blank / "Translation: " translation /
\* "Meaning: " meaning  of that selection; with no current selection it
\* writes nothing; and the clipboard only ever receives a text so requested.
C7_CopyWritesLayout ==
    [][/\ (lastEvent' = "copy" /\ Falsy(currentProverb))
              => pendingWrites' = pendingWrites
       /\ (lastEvent' = "copy" /\ ~Falsy(currentProverb) /\ hasClipboard)
              => /\ Len(pendingWrites') = Len(pendingWrites) + 1
                 /\ SubSeq(pendingWrites', 1, Len(pendingWrites)) = pendingWrites
                 /\ SplitLines(pendingWrites'[Len(pendingWrites')], <<>>) =
                        << currentProverb.proverb,
                           <<>>,
                           <<"Translation: ">> \o currentProverb.translation,
                           <<"Meaning: ">> \o currentProverb.meaning >>
       /\ clipboard' # clipboard
              => \E i \in DOMAIN pendingWrites : clipboard' = pendingWrites[i]
      ]_vars

\* a copy of a randomly selected record, written by the host
C7_Witness ==
    /\ lastSel = "random"
    /\ currentProverb = Rec(2)
    /\ clipboard = <<"P", "2", "\n", "\n", "Translation: ", "T", "2", "\n",
                     "Meaning: ", "M", "2">>

\* C8 as stated (SpecFair): a randomly-selected session can be moved back
\* to daily-selected by a user action; with every user action taken again
\* and again, a randomly-selected session would then become daily-selected.
C8_RandomLeadsBackToDaily == (Mode = "random") ~> (Mode = "daily")

\* C8 amended (SpecFair): the mode moves only unloaded -> loaded,
\* unloaded -> daily (load and first selection are one handler) and
\* daily -> random by a new-proverb click; random is never left.
C8_ModeMachine ==
    [][\/ Mode' = Mode
       \/ Mode = "unloaded" /\ Mode' \in {"loaded", "daily"}
              /\ lastEvent' = "load"
       \/ Mode = "daily" /\ Mode' = "random" /\ lastEvent' = "newProverb"
      ]_vars

C8_Witness ==
    /\ Mode = "random"
    /\ fetchState = "loaded"
    /\ lastEvent = "newProverb"
    /\ ~Falsy(currentProverb)

\* C9 (Spec): the current selection is absent or is the record at some
\* index of the loaded collection, and the collection is the value the
\* load assigned (the initial empty array before that).
C9_SelectionPointsIntoCollection ==
    /\ \/ Falsy(currentProverb)
       \/ /\ proverbs.kind = "array"
          /\ \E i \in 1..Len(proverbs.items) : currentProverb = proverbs.items[i]
    /\ proverbs = IF loadedData = JSUndefined THEN EmptyCollection
                  ELSE loadedData

C9_Witness ==
    /\ lastSel = "random"
    /\ proverbs = Collection(2)
    /\ currentProverb = proverbs.items[2]
    /\ clipboard # <<>>
    /\ "share:rejected" \in reported

\* C10 (Spec): once every pending confirmation timer has fired, the copy
\* button shows the label it had before the first copy.
C10_LabelRestored == timers = <<>> => copyLabel = OriginalLabel

====
